---- MODULE Spec2Model ----
(***************************************************************************)
(* A model of the acquisition-and-synthesis core of                        *)
(* minecraft_modpack_launcher.py: the download orchestrator                *)
(* (parallel_download_files / download_to_file), the modloader installer   *)
(* acquisition (download_*_installer / _wait_for_manual_loader), the       *)
(* launch-argument synthesis (generate_java_args_from_version_json) and    *)
(* the pack importers (import_curseforge_modpack /                         *)
(* import_modrinth_modpack).  Each component is a state machine of its own *)
(* with its own specification; the variables of the other components stay  *)
(* at their idle values.                                                   *)
(***************************************************************************)
EXTENDS Integers, Sequences, FiniteSets, TLC

\* ------------------------------------------------------------------------
\* Bounds of the model
\* ------------------------------------------------------------------------

\* largest number of tasks in one download batch
MaxTasks == 3

\* largest value of the max_workers argument
MaxWorkers == 2

\* ------------------------------------------------------------------------
\* Generic helpers
\* ------------------------------------------------------------------------

SeqsUpTo(S, n) == UNION { [1..k -> S] : k \in 0..n }

\* ========================================================================
\* DownloadOrchestrator: download_to_file and parallel_download_files
\* ========================================================================

VARIABLES
  download_tasks, \* the batch: task t has destination t and source download_tasks[t]
  max_workers,    \* the max_workers argument
  parallel_enabled, \* the module global PARALLEL_DOWNLOADS_ENABLED as line 528 reads it
  fs,             \* content of each destination path
  pre_existing,   \* destinations that held a file before the batch ran
  dl_pc,          \* position of the calling thread in parallel_download_files
  idx,            \* index of the for loop the calling thread is in
  status,         \* per task: state of its future / worker
  completed,      \* the completed counter of the parallel branch
  dl_log,         \* messages passed to logger, in order
  fetched,        \* tasks whose source URL has been opened by urlopen
  failed_task,    \* task whose failure was raised to the caller (0: none)
  finish_order    \* the tasks in the order in which their futures got a result

dlVars == <<download_tasks, max_workers, parallel_enabled, fs, pre_existing, dl_pc,
            idx, status, completed, dl_log, fetched, failed_task, finish_order>>

\* line 66: the value the module gives the global
PARALLEL_DOWNLOADS_ENABLED == TRUE

\* what fetching a source does: "ok" transfers the whole body, "refused" makes
\* urlopen raise, "truncated" makes copyfileobj raise in the middle
SourceKinds == {"ok", "refused", "truncated"}

NumTasks == Len(download_tasks)

Tasks == 1..NumTasks

\* download_to_file(url, dest): the content of dest afterwards.  urlopen is
\* entered first; open(dest, "wb") runs only once urlopen has answered, and
\* truncates whatever dest held.  There is no test for an existing dest.
DownloadToFile(src, old) ==
  CASE src = "ok"        -> "fetched"
    [] src = "refused"   -> old
    [] src = "truncated" -> "partial"

\* whether download_to_file raises for that source
DownloadRaises(src) == src # "ok"

\* the state at the call of parallel_download_files, for a value of the
\* module global
DLInitWith(enabled) ==
  /\ download_tasks \in SeqsUpTo(SourceKinds, MaxTasks)
  /\ max_workers \in 1..MaxWorkers
  /\ parallel_enabled = enabled
  /\ fs \in [1..Len(download_tasks) -> {"absent", "seeded"}]
  /\ pre_existing = { d \in 1..Len(download_tasks) : fs[d] = "seeded" }
  /\ dl_pc = "entry"
  /\ idx = 1
  /\ status = [t \in 1..Len(download_tasks) |-> "new"]
  /\ completed = 0
  /\ dl_log = << >>
  /\ fetched = {}
  /\ failed_task = 0
  /\ finish_order = << >>

\* the call in the program as it is: the global has the value of line 66
DLInit == DLInitWith(PARALLEL_DOWNLOADS_ENABLED)

\* the call with parallel mode disabled (the first disjunct of line 528)
DLInitSequential == DLInitWith(FALSE)

\* line 528: the choice between the sequential and the parallel branch
EnterBatch ==
  /\ dl_pc = "entry"
  /\ dl_pc' = IF ~parallel_enabled \/ NumTasks <= 1 THEN "seq" ELSE "submit"
  /\ UNCHANGED <<download_tasks, max_workers, parallel_enabled, fs, pre_existing, idx, status,
                 completed, dl_log, fetched, failed_task, finish_order>>

\* mutant of SeqIterate: the except block logs the failure and the loop goes on
SeqIterate_ContinuesAfterFailure ==
  /\ dl_pc = "seq"
  /\ idx <= NumTasks
  /\ LET src == download_tasks[idx] IN
     /\ fetched' = fetched \cup {idx}
     /\ fs' = [fs EXCEPT ![idx] = DownloadToFile(src, fs[idx])]
     /\ IF DownloadRaises(src)
          THEN /\ dl_log' = dl_log \o << [msg |-> "Downloading", task |-> idx, n |-> 0],
                                         [msg |-> "Failed", task |-> idx, n |-> 0] >>
               /\ failed_task' = idx
               /\ dl_pc' = IF idx = NumTasks THEN "raised" ELSE dl_pc
               /\ idx' = IF idx = NumTasks THEN idx ELSE idx + 1
          ELSE /\ dl_log' = Append(dl_log, [msg |-> "Downloading", task |-> idx, n |-> 0])
               /\ failed_task' = failed_task
               /\ dl_pc' = dl_pc
               /\ idx' = idx + 1
  /\ UNCHANGED <<download_tasks, max_workers, parallel_enabled, pre_existing, status,
                 completed, finish_order>>

\* lines 530-536: one iteration of the sequential loop
SeqIterate ==
  /\ dl_pc = "seq"
  /\ idx <= NumTasks
  /\ LET src == download_tasks[idx] IN
     /\ fetched' = fetched \cup {idx}
     /\ fs' = [fs EXCEPT ![idx] = DownloadToFile(src, fs[idx])]
     /\ IF DownloadRaises(src)
          THEN /\ dl_log' = dl_log \o << [msg |-> "Downloading", task |-> idx, n |-> 0],
                                         [msg |-> "Failed", task |-> idx, n |-> 0] >>
               /\ failed_task' = idx
               /\ dl_pc' = "raised"
               /\ idx' = idx
          ELSE /\ dl_log' = Append(dl_log, [msg |-> "Downloading", task |-> idx, n |-> 0])
               /\ failed_task' = failed_task
               /\ dl_pc' = dl_pc
               /\ idx' = idx + 1
  /\ UNCHANGED <<download_tasks, max_workers, parallel_enabled, pre_existing, status,
                 completed, finish_order>>

\* line 537: the sequential loop is over
SeqReturn ==
  /\ dl_pc = "seq"
  /\ idx > NumTasks
  /\ dl_pc' = "returned"
  /\ UNCHANGED <<download_tasks, max_workers, parallel_enabled, fs, pre_existing, idx, status,
                 completed, dl_log, fetched, failed_task, finish_order>>

\* line 549: executor.submit of the next task; the work item joins the
\* executor's FIFO queue.  After the last submit the caller enters the
\* result loop.
Submit ==
  /\ dl_pc = "submit"
  /\ idx <= NumTasks
  /\ status' = [status EXCEPT ![idx] = "queued"]
  /\ IF idx = NumTasks
       THEN dl_pc' = "collect" /\ idx' = 1
       ELSE dl_pc' = dl_pc /\ idx' = idx + 1
  /\ UNCHANGED <<download_tasks, max_workers, parallel_enabled, fs, pre_existing, completed,
                 dl_log, fetched, failed_task, finish_order>>

\* mutant of PoolHasIdleThread: the pool starts a thread for every work item
PoolHasIdleThread_Unbounded == TRUE

\* line 548: ThreadPoolExecutor(max_workers=max_workers) holds at most
\* max_workers threads, and a thread runs one work item at a time
PoolHasIdleThread == Cardinality({ t \in Tasks : status[t] = "running" }) < max_workers

\* a pool thread takes the oldest queued work item and enters download_task
\* (lines 540-543)
WorkerStart(t) ==
  /\ status[t] = "queued"
  /\ \A q \in Tasks : status[q] = "queued" => t <= q
  /\ PoolHasIdleThread
  /\ status' = [status EXCEPT ![t] = "running"]
  /\ fetched' = fetched \cup {t}
  /\ UNCHANGED <<download_tasks, max_workers, parallel_enabled, fs, pre_existing, dl_pc, idx,
                 completed, dl_log, failed_task, finish_order>>

\* lines 543-546: download_to_file ends, the future gets its result
WorkerFinish(t) ==
  /\ status[t] = "running"
  /\ LET src == download_tasks[t] IN
     /\ fs' = [fs EXCEPT ![t] = DownloadToFile(src, fs[t])]
     /\ status' = [status EXCEPT ![t] = IF DownloadRaises(src) THEN "failed" ELSE "ok"]
     /\ finish_order' = Append(finish_order, t)
  /\ UNCHANGED <<download_tasks, max_workers, parallel_enabled, pre_existing, dl_pc, idx,
                 completed, dl_log, fetched, failed_task>>

\* mutant of Finished: the result of a future is taken while its task runs
Finished_Early(t) == status[t] \in {"ok", "failed", "running"}

\* future.result() returns once the task has returned (line 553)
Finished(t) == status[t] \in {"ok", "failed"}

\* lines 552-559: future.result() of the next future in submission order
Collect ==
  /\ dl_pc = "collect"
  /\ idx <= NumTasks
  /\ Finished(idx)
  /\ completed' = completed + 1
  /\ IF status[idx] = "ok"
       THEN /\ dl_log' = Append(dl_log, [msg |-> "Downloaded", task |-> idx, n |-> completed + 1])
            /\ idx' = idx + 1
            /\ dl_pc' = dl_pc
            /\ failed_task' = failed_task
       ELSE /\ dl_log' = Append(dl_log, [msg |-> "Failed", task |-> idx, n |-> 0])
            /\ idx' = idx
            /\ dl_pc' = "unwind"
            /\ failed_task' = idx
  /\ UNCHANGED <<download_tasks, max_workers, parallel_enabled, fs, pre_existing, status,
                 fetched, finish_order>>

\* line 548: leaving the with block after the loop.  Executor.__exit__ is
\* shutdown(wait=True); every future has been collected by then.
CollectReturn ==
  /\ dl_pc = "collect"
  /\ idx > NumTasks
  /\ dl_pc' = "returned"
  /\ UNCHANGED <<download_tasks, max_workers, parallel_enabled, fs, pre_existing, idx, status,
                 completed, dl_log, fetched, failed_task, finish_order>>

\* lines 548, 559: the RuntimeError leaves the with block.  Executor.__exit__
\* is shutdown(wait=True) without cancel_futures: the pool threads go on
\* taking queued work items, and the exception reaches the caller only once
\* every submitted task has run.
Unwind ==
  /\ dl_pc = "unwind"
  /\ \A t \in Tasks : Finished(t)
  /\ dl_pc' = "raised"
  /\ UNCHANGED <<download_tasks, max_workers, parallel_enabled, fs, pre_existing, idx, status,
                 completed, dl_log, fetched, failed_task, finish_order>>

\* ========================================================================
\* InstallerAcquisition: download_forge_installer, download_fabric_installer,
\* download_neoforge_installer and _wait_for_manual_loader
\* ========================================================================

\* File names and versions are sequences of characters, so that prefix,
\* suffix and substring tests are the ones the code performs.

FORGE_FRAGMENT == <<"f", "o", "r", "g", "e", "-">>

FABRIC_FRAGMENT == <<"f", "a", "b", "r", "i", "c", "-">>

NEOFORGE_FRAGMENT == <<"n", "e", "o", "f", "o", "r", "g", "e", "-">>

JAR_SUFFIX == <<".", "j", "a", "r">>

INSTALLER_JAR == <<"-", "i", "n", "s", "t", "a", "l", "l", "e", "r", ".", "j", "a", "r">>

LATEST == <<"l", "a", "t", "e", "s", "t">>

\* str.startswith
StartsWith(s, p) == Len(p) <= Len(s) /\ SubSeq(s, 1, Len(p)) = p

\* str.endswith
EndsWith(s, p) == Len(p) <= Len(s) /\ SubSeq(s, Len(s) - Len(p) + 1, Len(s)) = p

\* the in operator on strings
Contains(s, p) == \E i \in 1..(Len(s) - Len(p) + 1) : SubSeq(s, i, i + Len(p) - 1) = p

\* Path.glob("<prefix>*.jar") applied to one file name
GlobPrefixJar(prefix, name) ==
  /\ Len(name) >= Len(prefix) + Len(JAR_SUFFIX)
  /\ StartsWith(name, prefix)
  /\ EndsWith(name, JAR_SUFFIX)

LoaderKinds == {"forge", "fabric", "neoforge"}

\* the search pattern each installer function hands to glob and to
\* _wait_for_manual_loader (lines 349/355, 424/430, 479/485)
Fragment(k) ==
  CASE k = "forge"    -> FORGE_FRAGMENT
    [] k = "fabric"   -> FABRIC_FRAGMENT
    [] k = "neoforge" -> NEOFORGE_FRAGMENT

\* installer_name (lines 332, 407, 462)
InstallerName(k, mc, v) ==
  CASE k = "forge"    -> FORGE_FRAGMENT \o mc \o <<"-">> \o v \o INSTALLER_JAR
    [] k = "fabric"   -> FABRIC_FRAGMENT
                           \o <<"i", "n", "s", "t", "a", "l", "l", "e", "r", "-">>
                           \o mc \o <<"-">> \o v \o JAR_SUFFIX
    [] k = "neoforge" -> NEOFORGE_FRAGMENT \o v \o INSTALLER_JAR

\* files a user (or an earlier run) may have put into the loaders directory
PlacedFiles ==
  { InstallerName("forge", <<"1">>, <<"7">>),
    InstallerName("forge", <<"1">>, <<"8">>),
    InstallerName("neoforge", <<"1">>, <<"7">>),
    InstallerName("fabric", <<"1">>, <<"7">>) }

NoFile == << >>

Unresolved == <<"?">>

\* line 278
max_wait_time == 300

\* line 280
poll_interval == 1

\* line 293
status_interval == 5

VARIABLES
  kind,          \* which download_*_installer function runs
  mc_version,    \* its mc_version argument
  req_version,   \* its forge_version / loader_version / neoforge_version argument
  resolved,      \* the loader version the try block settled on
  loaders,       \* names of the files in the loaders directory
  truncated,     \* those of them that hold an incomplete transfer
  acq_pc,        \* position in the installer function / _wait_for_manual_loader
  result,        \* the returned path (NoFile: none)
  returned_by,   \* which step returned it
  prompts,       \* number of messagebox.askyesno calls
  answer,        \* what askyesno returned ("none" before the prompt)
  scans,         \* directory scans made by the poll loop
  sleeps,        \* time.sleep calls made by the poll loop
  elapsed,       \* the elapsed counter of the poll loop
  waiting_logs,  \* "Waiting for modloader..." messages logged
  still_logs     \* "Still waiting for modloader..." messages logged

acqVars == <<kind, mc_version, req_version, resolved, loaders, truncated, acq_pc,
             result, returned_by, prompts, answer, scans, sleeps, elapsed,
             waiting_logs, still_logs>>

\* "if not v or v == 'latest'" (lines 318, 381, 448)
WantsLatest(v) == v = << >> \/ v = LATEST

\* The version the try block resolves.  net is what the metadata endpoints
\* do: "down" (urlopen raises), "empty" (no entry for this game version) or
\* "ok" (newest is the version the endpoints name).  Forge always fetches the
\* promotions and looks the key up only for "latest"; Fabric always fetches
\* both lists and needs them non-empty; NeoForge asks the lister only for
\* "latest" (the lister's sentinel ["latest"] is an error here).
ResolveVersion(k, req, net, newest) ==
  CASE k = "forge" ->
         IF net = "down" THEN Unresolved
         ELSE IF WantsLatest(req)
                THEN (IF net = "empty" THEN Unresolved ELSE newest)
                ELSE req
    [] k = "fabric" ->
         IF net \in {"down", "empty"} THEN Unresolved
         ELSE IF WantsLatest(req) THEN newest ELSE req
    [] k = "neoforge" ->
         IF WantsLatest(req)
           THEN (IF net \in {"down", "empty"} THEN Unresolved ELSE newest)
           ELSE req

AcqInit ==
  /\ kind \in LoaderKinds
  /\ mc_version \in { <<"1">> }
  /\ req_version \in { << >>, LATEST, <<"7">> }
  /\ resolved = Unresolved
  /\ loaders \in SUBSET PlacedFiles
  /\ truncated = {}
  /\ acq_pc = "resolve"
  /\ result = NoFile
  /\ returned_by = "none"
  /\ prompts = 0
  /\ answer = "none"
  /\ scans = 0
  /\ sleeps = 0
  /\ elapsed = 0
  /\ waiting_logs = 0
  /\ still_logs = 0

\* someone puts a file into the loaders directory while the function runs
UserPlacesFile(f) ==
  /\ (acq_pc \notin {"returned", "cancelled", "timeout"})
  /\ f \notin loaders
  /\ loaders' = loaders \cup {f}
  /\ UNCHANGED <<kind, mc_version, req_version, resolved, truncated, acq_pc,
                 result, returned_by, prompts, answer, scans, sleeps, elapsed,
                 waiting_logs, still_logs>>

\* lines 308-324, 371-399, 445-454: the metadata part of the try block
ResolveStep(net, newest) ==
  /\ acq_pc = "resolve"
  /\ resolved' = ResolveVersion(kind, req_version, net, newest)
  /\ acq_pc' = IF resolved' = Unresolved THEN "fallback" ELSE "download"
  /\ UNCHANGED <<kind, mc_version, req_version, loaders, truncated,
                 result, returned_by, prompts, answer, scans, sleeps, elapsed,
                 waiting_logs, still_logs>>

\* mutant of DownloadStep: the except block is entered after a download
\* that succeeded, too
DownloadStep_AlwaysFallsBack(src) ==
  /\ acq_pc = "download"
  /\ LET name == InstallerName(kind, mc_version, resolved) IN
     IF name \in loaders
       THEN /\ result' = name
            /\ returned_by' = "cache"
            /\ acq_pc' = "returned"
            /\ UNCHANGED <<loaders, truncated>>
       ELSE /\ loaders' = IF src = "refused" THEN loaders ELSE loaders \cup {name}
            /\ truncated' = IF src = "truncated" THEN truncated \cup {name} ELSE truncated
            /\ acq_pc' = "fallback"
            /\ UNCHANGED <<result, returned_by>>
  /\ UNCHANGED <<kind, mc_version, req_version, resolved, prompts, answer, scans,
                 sleeps, elapsed, waiting_logs, still_logs>>

\* lines 332-342, 407-417, 462-472: the exact-name cache test and the
\* direct download
DownloadStep(src) ==
  /\ acq_pc = "download"
  /\ LET name == InstallerName(kind, mc_version, resolved) IN
     IF name \in loaders
       THEN /\ result' = name
            /\ returned_by' = "cache"
            /\ acq_pc' = "returned"
            /\ UNCHANGED <<loaders, truncated>>
       ELSE /\ loaders' = IF src = "refused" THEN loaders ELSE loaders \cup {name}
            /\ truncated' = IF src = "truncated" THEN truncated \cup {name} ELSE truncated
            /\ IF DownloadRaises(src)
                 THEN acq_pc' = "fallback" /\ UNCHANGED <<result, returned_by>>
                 ELSE /\ result' = name
                      /\ returned_by' = "download"
                      /\ acq_pc' = "returned"
  /\ UNCHANGED <<kind, mc_version, req_version, resolved, prompts, answer, scans,
                 sleeps, elapsed, waiting_logs, still_logs>>

\* mutant of CacheMatches: every installer function globs "forge-*.jar"
CacheMatches_ForgeOnly(k, dir) == { f \in dir : GlobPrefixJar(FORGE_FRAGMENT, f) }

\* files the except block's glob yields (lines 349, 424, 479)
CacheMatches(k, dir) == { f \in dir : GlobPrefixJar(Fragment(k), f) }

\* lines 344-355, 419-430, 474-485: the except block.  It returns the first
\* file glob yields (glob's order is the directory's), else it enters
\* _wait_for_manual_loader, whose first act after mkdir is the prompt.
FallbackScan ==
  /\ acq_pc = "fallback"
  /\ IF CacheMatches(kind, loaders) # {}
       THEN /\ \E f \in CacheMatches(kind, loaders) : result' = f
            /\ returned_by' = "scan"
            /\ acq_pc' = "returned"
       ELSE /\ acq_pc' = "prompt"
            /\ UNCHANGED <<result, returned_by>>
  /\ UNCHANGED <<kind, mc_version, req_version, resolved, loaders, truncated,
                 prompts, answer, scans, sleeps, elapsed, waiting_logs, still_logs>>

\* mutant of PromptUser: the answer is not tested, polling always starts
PromptUser_IgnoresAnswer(yes) ==
  /\ acq_pc = "prompt"
  /\ prompts' = prompts + 1
  /\ answer' = IF yes THEN "yes" ELSE "no"
  /\ waiting_logs' = waiting_logs + 1
  /\ elapsed' = 0
  /\ acq_pc' = "poll_scan"
  /\ UNCHANGED <<kind, mc_version, req_version, resolved, loaders, truncated,
                 result, returned_by, scans, sleeps, still_logs>>

\* lines 265-280: askyesno and what follows it at once
PromptUser(yes) ==
  /\ acq_pc = "prompt"
  /\ prompts' = prompts + 1
  /\ answer' = IF yes THEN "yes" ELSE "no"
  /\ IF yes
       THEN /\ waiting_logs' = waiting_logs + 1
            /\ elapsed' = 0
            /\ acq_pc' = "poll_scan"
       ELSE /\ acq_pc' = "cancelled"
            /\ UNCHANGED <<waiting_logs, elapsed>>
  /\ UNCHANGED <<kind, mc_version, req_version, resolved, loaders, truncated,
                 result, returned_by, scans, sleeps, still_logs>>

\* files the poll loop accepts (lines 284-285)
PollMatches(k, dir) ==
  { f \in dir : EndsWith(f, JAR_SUFFIX) /\ Contains(f, Fragment(k)) }

\* lines 284-287: one directory scan of the poll loop
PollScan ==
  /\ acq_pc = "poll_scan"
  /\ scans' = scans + 1
  /\ IF PollMatches(kind, loaders) # {}
       THEN /\ \E f \in PollMatches(kind, loaders) : result' = f
            /\ returned_by' = "poll"
            /\ acq_pc' = "returned"
       ELSE /\ acq_pc' = "poll_sleep"
            /\ UNCHANGED <<result, returned_by>>
  /\ UNCHANGED <<kind, mc_version, req_version, resolved, loaders, truncated,
                 prompts, answer, sleeps, elapsed, waiting_logs, still_logs>>

\* mutant of LoopContinues: the loop test is off by one
LoopContinues_OffByOne(e) == e <= max_wait_time

\* line 282: the loop test
LoopContinues(e) == e < max_wait_time

\* lines 289-299 and 282: sleep, count, the status message every fifth
\* second, and the loop test that either scans again or raises the timeout
PollSleep ==
  /\ acq_pc = "poll_sleep"
  /\ sleeps' = sleeps + 1
  /\ elapsed' = elapsed + poll_interval
  /\ still_logs' = IF elapsed' % status_interval = 0 THEN still_logs + 1 ELSE still_logs
  /\ acq_pc' = IF LoopContinues(elapsed') THEN "poll_scan" ELSE "timeout"
  /\ UNCHANGED <<kind, mc_version, req_version, resolved, loaders, truncated,
                 result, returned_by, prompts, answer, scans, waiting_logs>>

\* ========================================================================
\* ArgumentSynthesizer: generate_java_args_from_version_json
\* ========================================================================

\* An argument string is a sequence of tokens: "$", "{", "}", " " and words
\* (maximal runs of other characters).  File paths are sequences of
\* characters.  Both are sequences of strings, so str.replace, str.split and
\* str.join are modelled on sequences.

\* largest number of entries of arguments.jvm and arguments.game together
MaxArgs == 3

Absent == <<"<absent>">>

\* "${name}"
Placeholder(name) == <<"$", "{", name, "}">>

\* an entry of arguments.jvm / arguments.game that is a string
Str(text) == [isstr |-> TRUE, text |-> text]

\* an entry that is a rule object (a dict), not a string
RuleEntry == [isstr |-> FALSE, text |-> <<"rules">>]

JvmItems ==
  { Str(<<"-Xss1M">>),
    Str(<<"-Djava.library.path=">> \o Placeholder("natives_directory")),
    RuleEntry }

GameItems ==
  { Str(Placeholder("auth_player_name")),
    Str(<<"--gameDir=">> \o Placeholder("game_directory")),
    RuleEntry }

\* values of minecraftArguments
LegacyBlobs ==
  { <<"--username", " ">> \o Placeholder("auth_player_name")
      \o <<" ", " ", "--version", " ">> \o Placeholder("version_name"),
    <<"--gameDir", " ">> \o Placeholder("game_directory")
      \o <<" ">> \o Placeholder("user_properties") }

\* version_data without an "arguments" entry (or with an empty one)
NoArguments == [present |-> FALSE, jvm |-> << >>, game |-> << >>]

\* version_data: the structured form, or the legacy form, or neither
Descriptors ==
  { [arguments |-> [present |-> TRUE, jvm |-> p[1], game |-> p[2]], legacy |-> << >>] :
      p \in { q \in SeqsUpTo(JvmItems, MaxArgs) \X SeqsUpTo(GameItems, MaxArgs) :
                Len(q[1]) + Len(q[2]) <= MaxArgs } }
  \cup { [arguments |-> NoArguments, legacy |-> l] : l \in LegacyBlobs \cup { << >> } }

\* line 1034
DEFAULT_MAIN_CLASS == <<"net.minecraft.client.main.Main">>

\* files below libraries_dir, all in one directory
LibFiles ==
  { <<"L", "/", "a", ".", "j", "a", "r">>,
    <<"L", "/", "b", ".", "j", "a", "r">>,
    <<"L", "/", "c", ".", "z", "i", "p">> }

VERSION_ID == <<"1.20">>

VARIABLES
  version_data,  \* the version descriptor
  main_class_in, \* its mainClass entry (Absent: none)
  config,        \* the configuration map (Absent: key missing)
  lib_files,     \* files below libraries_dir
  platform,      \* sys.platform
  syn_pc,        \* "ready", "written"
  args_file      \* lines of java_args_<id>.txt (empty: not written)

synVars == <<version_data, main_class_in, config, lib_files, platform, syn_pc, args_file>>

SynInit ==
  /\ version_data \in Descriptors
  /\ main_class_in \in { Absent, <<"net.minecraft.launchwrapper.Launch">> }
  /\ config \in [auth_player_name : { Absent, <<"Steve">>, Placeholder("version_name") },
                  minecraft_dir : { Absent, << >>, <<"/games/mc">> }]
  /\ lib_files \in SUBSET LibFiles
  /\ platform \in { <<"w", "i", "n", "3", "2">>, <<"l", "i", "n", "u", "x">> }
  /\ syn_pc = "ready"
  /\ args_file = << >>

\* lines 1010-1015: the entries that are strings, in order
RECURSIVE StringEntries(_)
StringEntries(items) ==
  IF items = << >> THEN << >>
  ELSE IF Head(items).isstr
         THEN <<Head(items).text>> \o StringEntries(Tail(items))
         ELSE StringEntries(Tail(items))

\* str.split() on whitespace: cur is the word being read
RECURSIVE SplitWs(_, _)
SplitWs(s, cur) ==
  IF s = << >> THEN (IF cur = << >> THEN << >> ELSE <<cur>>)
  ELSE IF Head(s) = " "
         THEN (IF cur = << >> THEN << >> ELSE <<cur>>) \o SplitWs(Tail(s), << >>)
         ELSE SplitWs(Tail(s), Append(cur, Head(s)))

\* lines 1006-1015: jvm_args before the classpath is appended
JvmArgs(vd) ==
  IF vd.arguments.present THEN StringEntries(vd.arguments.jvm) ELSE << >>

\* lines 1006-1019: game_args before substitution
GameArgs(vd) ==
  IF vd.arguments.present THEN StringEntries(vd.arguments.game)
  ELSE IF vd.legacy # << >> THEN SplitWs(vd.legacy, << >>) ELSE << >>

\* orders in which a directory listing may yield the files of a set
Orderings(S) ==
  { f \in [1..Cardinality(S) -> S] : \A x \in S : \E i \in 1..Cardinality(S) : f[i] = x }

IsJar(f) == EndsWith(f, JAR_SUFFIX)

\* line 1027: versions_dir / f"{version_id}.jar"
ClientJar(id) == <<"V", "/">> \o id \o JAR_SUFFIX

\* mutant of CpEntries: the client jar is put first
CpEntries_ClientFirst(walk, id) == <<ClientJar(id)>> \o SelectSeq(walk, IsJar)

\* lines 1021-1028: cp_entries for one os.walk order
CpEntries(walk, id) == Append(SelectSeq(walk, IsJar), ClientJar(id))

\* line 1030: the platform's path-list separator
PathSeparator(plat) == IF StartsWith(plat, <<"w", "i", "n">>) THEN ";" ELSE ":"

\* str.join
RECURSIVE Join(_, _)
Join(parts, sep) ==
  IF parts = << >> THEN << >>
  ELSE IF Len(parts) = 1 THEN parts[1]
  ELSE parts[1] \o <<sep>> \o Join(Tail(parts), sep)

\* str.replace(key, value): left to right, non-overlapping
RECURSIVE Replace(_, _, _)
Replace(s, key, value) ==
  IF Len(s) < Len(key) THEN s
  ELSE IF SubSeq(s, 1, Len(key)) = key
         THEN value \o Replace(SubSeq(s, Len(key) + 1, Len(s)), key, value)
         ELSE <<Head(s)>> \o Replace(Tail(s), key, value)

\* mutant of ConfigGet: a missing key yields the empty string
ConfigGet_Blank(cfg, key, default) == IF cfg[key] = Absent THEN << >> ELSE cfg[key]

\* dict.get(key, default)
ConfigGet(cfg, key, default) == IF cfg[key] = Absent THEN default ELSE cfg[key]

\* line 1036: config.get("minecraft_dir") or <install dir>/instances/<id>
GameDir(cfg, id) ==
  IF cfg.minecraft_dir = Absent \/ cfg.minecraft_dir = << >>
    THEN <<"INSTALL_DIR/instances/">> \o id
    ELSE cfg.minecraft_dir

\* lines 1040-1052: the substitution table, in insertion order.  The keys
\* auth_uuid, auth_access_token, user_type and version_type are not in the
\* modelled configurations and take their defaults.
Substitutions(cfg, id) ==
  << [key |-> Placeholder("auth_player_name"),
      value |-> ConfigGet(cfg, "auth_player_name", <<"Player">>)],
     [key |-> Placeholder("version_name"), value |-> id],
     [key |-> Placeholder("game_directory"), value |-> GameDir(cfg, id)],
     [key |-> Placeholder("assets_root"), value |-> <<"ASSETS_DIR">>],
     [key |-> Placeholder("assets_index_name"), value |-> <<"assets">>],
     [key |-> Placeholder("auth_uuid"), value |-> <<"00000000-0000-0000-0000-000000000000">>],
     [key |-> Placeholder("auth_access_token"), value |-> <<"0">>],
     [key |-> Placeholder("user_type"), value |-> <<"mojang">>],
     [key |-> Placeholder("version_type"), value |-> <<"release">>],
     [key |-> Placeholder("clientid"), value |-> <<"0">>],
     [key |-> Placeholder("auth_xuid"), value |-> << >>] >>

\* lines 1054-1057: apply_substitutions
RECURSIVE ApplySubstitutions(_, _)
ApplySubstitutions(arg, table) ==
  IF table = << >> THEN arg
  ELSE ApplySubstitutions(Replace(arg, Head(table).key, Head(table).value), Tail(table))

\* line 1059
SubstituteAll(args, table) == [i \in 1..Len(args) |-> ApplySubstitutions(args[i], table)]

\* line 1034
MainClass(mc) == IF mc = Absent THEN DEFAULT_MAIN_CLASS ELSE mc

\* mutant of ArgsLines: the main class is appended after the game arguments
ArgsLines_MainLast(jvm, main, game) == jvm \o game \o <<main>>

\* lines 1061-1066: args_lines
ArgsLines(jvm, main, game) == jvm \o <<main>> \o game

\* the whole function for one os.walk order (lines 1003-1071)
GenerateJavaArgs(vd, mc, cfg, walk, plat, id) ==
  ArgsLines(JvmArgs(vd) \o << <<"-cp">>, Join(CpEntries(walk, id), PathSeparator(plat)) >>,
            MainClass(mc),
            SubstituteAll(GameArgs(vd), Substitutions(cfg, id)))

\* generate_java_args_from_version_json: os.walk yields the files of
\* libraries_dir in the directory's order; the file is written at the end
Synthesize ==
  /\ syn_pc = "ready"
  /\ \E walk \in Orderings(lib_files) :
       args_file' = GenerateJavaArgs(version_data, main_class_in, config, walk,
                                     platform, VERSION_ID)
  /\ syn_pc' = "written"
  /\ UNCHANGED <<version_data, main_class_in, config, lib_files, platform>>

\* ========================================================================
\* PackImporter: import_curseforge_modpack and import_modrinth_modpack
\* ========================================================================

\* largest number of remote entries a pack's manifest declares
MaxEntries == 2

\* largest number of .jar entries bundled under mods/ in the archive
MaxBundled == 1

\* A remote entry of the manifest's files list.
\*   keyed:    CurseForge: projectID and fileID are both present and non-zero;
\*             Modrinth: path is present and non-empty
\*   required: CurseForge: the entry's "required" (true when the key is
\*             missing); the Modrinth importer reads no such field
\*   url:      CurseForge: what get_curseforge_file_download_url returns for
\*             the entry ("" when the API gives none or fails);
\*             Modrinth: downloads[0], "" when downloads is missing or empty
EntryUrls == {"", "https://cdn/a.jar"}

CurseForgeEntries == [keyed : BOOLEAN, required : BOOLEAN, url : EntryUrls]

ModrinthEntries == [keyed : BOOLEAN, required : {TRUE}, url : EntryUrls]

VARIABLES
  schema,         \* which importer runs
  has_marker,     \* whether the archive holds manifest.json / modrinth.index.json
  entries,        \* the files list of the manifest
  bundled,        \* number of mods/*.jar entries in the archive
  pack_pc,        \* position in the importer
  pack_idx,       \* index of the files loop
  pack_tasks,     \* download_tasks: the entries (by index) that became tasks
  pack_log,       \* logger calls about entries and mods, in order
  mods_extracted, \* the mods_extracted counter
  overrides_done  \* whether the overrides have been copied

packVars == <<schema, has_marker, entries, bundled, pack_pc, pack_idx, pack_tasks,
              pack_log, mods_extracted, overrides_done>>

PackInit ==
  /\ schema \in {"curseforge", "modrinth"}
  /\ has_marker \in BOOLEAN
  /\ entries \in IF schema = "curseforge"
                   THEN SeqsUpTo(CurseForgeEntries, MaxEntries)
                   ELSE SeqsUpTo(ModrinthEntries, MaxEntries)
  /\ has_marker = FALSE => entries = << >>
  /\ bundled \in 0..MaxBundled
  /\ pack_pc = "open"
  /\ pack_idx = 1
  /\ pack_tasks = << >>
  /\ pack_log = << >>
  /\ mods_extracted = 0
  /\ overrides_done = FALSE

\* lines 713-725 and 814-824: the marker file is looked up.  The CurseForge
\* importer goes on without a manifest; the Modrinth importer raises.
OpenArchive ==
  /\ pack_pc = "open"
  /\ pack_pc' = IF has_marker THEN "entries"
                ELSE IF schema = "curseforge" THEN "bundled" ELSE "raised"
  /\ UNCHANGED <<schema, has_marker, entries, bundled, pack_idx, pack_tasks,
                 pack_log, mods_extracted, overrides_done>>

\* lines 752-770: one iteration of the CurseForge files loop
CurseForgeEntry(e, i) ==
  IF ~e.keyed
    THEN UNCHANGED <<pack_tasks, pack_log>>
    ELSE IF e.url # ""
           THEN /\ pack_tasks' = Append(pack_tasks, i)
                /\ UNCHANGED pack_log
           ELSE /\ pack_log' = IF e.required
                                 THEN Append(pack_log, [msg |-> "warning", entry |-> i])
                                 ELSE pack_log
                /\ UNCHANGED pack_tasks

\* lines 859-867: one iteration of the Modrinth files loop
ModrinthEntry(e, i) ==
  IF ~e.keyed \/ e.url = ""
    THEN UNCHANGED <<pack_tasks, pack_log>>
    ELSE /\ pack_tasks' = Append(pack_tasks, i)
         /\ UNCHANGED pack_log

\* the files loop of either importer
ProcessEntry ==
  /\ pack_pc = "entries"
  /\ pack_idx <= Len(entries)
  /\ IF schema = "curseforge"
       THEN CurseForgeEntry(entries[pack_idx], pack_idx)
       ELSE ModrinthEntry(entries[pack_idx], pack_idx)
  /\ pack_idx' = pack_idx + 1
  /\ UNCHANGED <<schema, has_marker, entries, bundled, pack_pc, mods_extracted,
                 overrides_done>>

\* the files loop is over: the CurseForge importer extracts the bundled mods
\* next (line 772), the Modrinth importer goes to the downloads (line 869)
EntriesDone ==
  /\ pack_pc = "entries"
  /\ pack_idx > Len(entries)
  /\ pack_pc' = IF schema = "curseforge" THEN "bundled" ELSE "download"
  /\ UNCHANGED <<schema, has_marker, entries, bundled, pack_idx, pack_tasks,
                 pack_log, mods_extracted, overrides_done>>

\* lines 773-782: a bundled mods/*.jar entry is copied into the mods directory
ExtractBundled ==
  /\ pack_pc = "bundled"
  /\ mods_extracted < bundled
  /\ mods_extracted' = mods_extracted + 1
  /\ pack_log' = Append(pack_log, [msg |-> "extracting", entry |-> mods_extracted + 1])
  /\ UNCHANGED <<schema, has_marker, entries, bundled, pack_pc, pack_idx,
                 pack_tasks, overrides_done>>

\* line 784: every bundled entry has been copied
BundledDone ==
  /\ pack_pc = "bundled"
  /\ mods_extracted = bundled
  /\ pack_pc' = "download"
  /\ UNCHANGED <<schema, has_marker, entries, bundled, pack_idx, pack_tasks,
                 pack_log, mods_extracted, overrides_done>>

\* lines 785-792 and 870-872: the batch goes to parallel_download_files,
\* which returns or raises; an empty batch is not run
DownloadBatch(ok) ==
  /\ pack_pc = "download"
  /\ pack_pc' = IF pack_tasks = << >> \/ ok THEN "overrides" ELSE "raised"
  /\ UNCHANGED <<schema, has_marker, entries, bundled, pack_idx, pack_tasks,
                 pack_log, mods_extracted, overrides_done>>

\* lines 794-804 and 874-884: the overrides are copied and the importer returns
CopyOverrides ==
  /\ pack_pc = "overrides"
  /\ overrides_done' = TRUE
  /\ pack_pc' = "done"
  /\ UNCHANGED <<schema, has_marker, entries, bundled, pack_idx, pack_tasks,
                 pack_log, mods_extracted>>

\* ========================================================================
\* VanillaInstaller: find_version_in_manifest and download_vanilla_version
\* ========================================================================

\* largest number of entries of the manifest's versions list
MaxManifest == 2

\* largest number of entries of the descriptor's libraries list
MaxLibs == 2

\* an entry of manifest["versions"]
ManifestEntries == [id : {"1.20", "1.21"}, url : {"https://meta/v.json"}]

\* None
NoEntry == [id |-> "<none>", url |-> ""]

\* an entry of version_data["libraries"]: without downloads.artifact, or
\* with an artifact that has path and url
LibEntries ==
  { [artifact |-> FALSE, path |-> "", url |-> ""],
    [artifact |-> TRUE, path |-> "x.jar", url |-> "https://libs/x.jar"],
    [artifact |-> TRUE, path |-> "y.jar", url |-> "https://libs/y.jar"] }

\* version_data as far as download_vanilla_version reads it
VersionDescriptors ==
  [rev : {1, 2}, libraries : SeqsUpTo(LibEntries, MaxLibs), has_asset_index : BOOLEAN]

NoDescriptor == [rev |-> 0, libraries |-> << >>, has_asset_index |-> FALSE]

\* asset_index["objects"]: a dict, so the names are distinct; the entries
\* are listed in the order of the JSON text, here with "a.png" first.
\* Hashes are sequences of characters: the target path takes their first two.
AssetIndexes ==
  { s \in SeqsUpTo([name : {"a.png", "b.png"},
                    hash : { <<"a", "a", "1", "1">>, <<"a", "a", "2", "2">> }],
                   Cardinality({"a.png", "b.png"})) :
      /\ \A i, j \in 1..Len(s) : i # j => s[i].name # s[j].name
      /\ Len(s) > 1 => s[1].name = "a.png" }

VARIABLES
  manifest,         \* manifest["versions"] as fetch_version_manifest returns it
  version_id,       \* the version_id argument
  v_entry,          \* what find_version_in_manifest returned
  van_pc,           \* position in download_vanilla_version
  dirs_created,     \* whether the directories of lines 923-927 exist
  version_json,     \* revision held by <root>/<id>.json (0: no such file)
  van_version_data, \* version_data of the running call
  lib_tasks,        \* the lib_tasks batch
  objects,          \* asset_index["objects"] of the running call
  asset_tasks,      \* the asset_tasks batch
  van_disk,         \* the client jar, the asset index and the asset objects on disk
  van_done,         \* the download stages of the running call that completed
  java_args_file    \* revision java_args_<id>.txt was generated from (0: no such file)

vanVars == <<manifest, version_id, v_entry, van_pc, dirs_created, version_json,
             van_version_data, lib_tasks, objects, asset_tasks, van_disk,
             van_done, java_args_file>>

VanInit ==
  /\ manifest \in SeqsUpTo(ManifestEntries, MaxManifest)
  /\ version_id \in {"1.20", "1.19"}
  /\ v_entry = NoEntry
  /\ van_pc = "start"
  /\ dirs_created = FALSE
  /\ version_json = 0
  /\ van_version_data = NoDescriptor
  /\ lib_tasks = << >>
  /\ objects = << >>
  /\ asset_tasks = << >>
  /\ van_disk = {}
  /\ van_done = {}
  /\ java_args_file = 0

\* mutant of FindVersionInManifest: the first entry is taken whatever its id
FindVersionInManifest_First(versions, id) ==
  IF versions = << >> THEN NoEntry ELSE Head(versions)

\* lines 896-901: the first entry whose id is the requested one, else None
RECURSIVE FindVersionInManifest(_, _)
FindVersionInManifest(versions, id) ==
  IF versions = << >> THEN NoEntry
  ELSE IF Head(versions).id = id THEN Head(versions)
  ELSE FindVersionInManifest(Tail(versions), id)

\* lines 941-951: the library batch
RECURSIVE LibTasks(_)
LibTasks(libs) ==
  IF libs = << >> THEN << >>
  ELSE LET lib == Head(libs) IN
       IF ~lib.artifact \/ lib.path = "" \/ lib.url = ""
         THEN LibTasks(Tail(libs))
         ELSE << [url |-> lib.url, dest |-> <<"libraries", lib.path>>, desc |-> lib.path] >>
                \o LibTasks(Tail(libs))

\* line 975: objects_dir / prefix / hash_
AssetTarget(hash) == <<"assets", "objects", SubSeq(hash, 1, 2), hash>>

\* lines 970-979: the asset batch; an object whose target exists is left out
RECURSIVE AssetTasks(_, _)
AssetTasks(objs, disk) ==
  IF objs = << >> THEN << >>
  ELSE LET obj == Head(objs) IN
       IF AssetTarget(obj.hash) \in disk
         THEN AssetTasks(Tail(objs), disk)
         ELSE << [url |-> <<"ASSET_BASE_URL", SubSeq(obj.hash, 1, 2), obj.hash>>,
                  dest |-> AssetTarget(obj.hash), desc |-> obj.name] >>
                \o AssetTasks(Tail(objs), disk)

\* the destinations of a batch
Dests(tasks) == { tasks[i].dest : i \in 1..Len(tasks) }

\* lines 906-907: fetch_version_manifest returns or raises
FetchManifest(ok) ==
  /\ van_pc = "start"
  /\ van_pc' = IF ok THEN "find" ELSE "raised"
  /\ UNCHANGED <<van_done, java_args_file, manifest, version_id, v_entry, dirs_created, version_json,
                 van_version_data, lib_tasks, objects, asset_tasks, van_disk>>

\* lines 908-910
FindVersion ==
  /\ van_pc = "find"
  /\ v_entry' = FindVersionInManifest(manifest, version_id)
  /\ van_pc' = IF v_entry' = NoEntry THEN "notfound" ELSE "fetch_json"
  /\ UNCHANGED <<van_done, java_args_file, manifest, version_id, dirs_created, version_json,
                 van_version_data, lib_tasks, objects, asset_tasks, van_disk>>

\* lines 912-915: the descriptor is fetched from the entry's URL
FetchVersionJson(ok, vd) ==
  /\ van_pc = "fetch_json"
  /\ IF ok
       THEN van_version_data' = vd /\ van_pc' = "write_json"
       ELSE van_version_data' = van_version_data /\ van_pc' = "raised"
  /\ UNCHANGED <<van_done, java_args_file, manifest, version_id, v_entry, dirs_created, version_json,
                 lib_tasks, objects, asset_tasks, van_disk>>

\* lines 917-930: the directories are made and the descriptor is written;
\* write_text replaces whatever the file held
WriteVersionJson ==
  /\ van_pc = "write_json"
  /\ dirs_created' = TRUE
  /\ version_json' = van_version_data.rev
  /\ van_pc' = "client"
  /\ UNCHANGED <<van_done, java_args_file, manifest, version_id, v_entry, van_version_data, lib_tasks,
                 objects, asset_tasks, van_disk>>

\* lines 932-936: download_to_file of the client jar
DownloadClient(src) ==
  /\ van_pc = "client"
  /\ van_disk' = IF src = "refused" THEN van_disk ELSE van_disk \cup {<<"versions", "client.jar">>}
  /\ van_pc' = IF DownloadRaises(src) THEN "raised" ELSE "libs"
  /\ van_done' = IF DownloadRaises(src) THEN van_done ELSE van_done \cup {"client"}
  /\ UNCHANGED <<java_args_file, manifest, version_id, v_entry, dirs_created, version_json,
                 van_version_data, lib_tasks, objects, asset_tasks>>

\* lines 939-951
BuildLibTasks ==
  /\ van_pc = "libs"
  /\ lib_tasks' = LibTasks(van_version_data.libraries)
  /\ van_pc' = "lib_batch"
  /\ UNCHANGED <<van_done, java_args_file, manifest, version_id, v_entry, dirs_created, version_json,
                 van_version_data, objects, asset_tasks, van_disk>>

\* mutant of RunLibBatch: a failure of the batch is swallowed
RunLibBatch_Swallows(ok) ==
  /\ van_pc = "lib_batch"
  /\ lib_tasks = << >> => ok
  /\ van_pc' = "asset_index"
  /\ van_done' = IF ok THEN van_done \cup {"libraries"} ELSE van_done
  /\ UNCHANGED <<java_args_file, manifest, version_id, v_entry, dirs_created, version_json,
                 van_version_data, lib_tasks, objects, asset_tasks, van_disk>>

\* lines 953-955: parallel_download_files(lib_tasks) returns or raises; an
\* empty batch is not run.  No later step reads the library files.
RunLibBatch(ok) ==
  /\ van_pc = "lib_batch"
  /\ lib_tasks = << >> => ok
  /\ van_pc' = IF ok THEN "asset_index" ELSE "raised"
  /\ van_done' = IF ok THEN van_done \cup {"libraries"} ELSE van_done
  /\ UNCHANGED <<java_args_file, manifest, version_id, v_entry, dirs_created, version_json,
                 van_version_data, lib_tasks, objects, asset_tasks, van_disk>>

\* lines 958-967: the asset index is fetched and written, when the
\* descriptor names one
FetchAssetIndex(ok, objs) ==
  /\ van_pc = "asset_index"
  /\ IF ~van_version_data.has_asset_index
       THEN van_pc' = "args" /\ UNCHANGED <<objects, van_disk>>
       ELSE IF ok
              THEN /\ objects' = objs
                   /\ van_disk' = van_disk \cup {<<"assets", "indexes", "index.json">>}
                   /\ van_pc' = "asset_tasks"
              ELSE van_pc' = "raised" /\ UNCHANGED <<objects, van_disk>>
  /\ UNCHANGED <<van_done, java_args_file, manifest, version_id, v_entry, dirs_created, version_json,
                 van_version_data, lib_tasks, asset_tasks>>

\* lines 969-979
BuildAssetTasks ==
  /\ van_pc = "asset_tasks"
  /\ asset_tasks' = AssetTasks(objects, van_disk)
  /\ van_pc' = "asset_batch"
  /\ UNCHANGED <<van_done, java_args_file, manifest, version_id, v_entry, dirs_created, version_json,
                 van_version_data, lib_tasks, objects, van_disk>>

\* lines 981-983: parallel_download_files(asset_tasks) returns, or raises
\* after some of its tasks have written their files
RunAssetBatch(ok, done) ==
  /\ van_pc = "asset_batch"
  /\ done \subseteq Dests(asset_tasks)
  /\ ok => done = Dests(asset_tasks)
  /\ asset_tasks = << >> => ok
  /\ van_disk' = van_disk \cup done
  /\ van_pc' = IF ok THEN "args" ELSE "raised"
  /\ van_done' = IF ok THEN van_done \cup {"assets"} ELSE van_done
  /\ UNCHANGED <<java_args_file, manifest, version_id, v_entry, dirs_created, version_json,
                 van_version_data, lib_tasks, objects, asset_tasks>>

\* lines 985-990: the launch specification is generated and the call returns
GenerateArgs ==
  /\ van_pc = "args"
  /\ java_args_file' = van_version_data.rev
  /\ van_pc' = "done"
  /\ UNCHANGED <<van_done, manifest, version_id, v_entry, dirs_created, version_json,
                 van_version_data, lib_tasks, objects, asset_tasks, van_disk>>

\* a later call of download_vanilla_version for the same identifier; the
\* files of the earlier call are on disk
StartRun ==
  /\ van_pc \in {"done", "raised", "notfound"}
  /\ van_pc' = "start"
  /\ v_entry' = NoEntry
  /\ van_version_data' = NoDescriptor
  /\ lib_tasks' = << >>
  /\ objects' = << >>
  /\ asset_tasks' = << >>
  /\ van_done' = {}
  /\ UNCHANGED <<java_args_file, manifest, version_id, dirs_created, version_json, van_disk>>

\* ========================================================================
\* VersionListers: get_available_forge_versions,
\* get_available_neoforge_versions and get_available_fabric_versions
\* ========================================================================

\* largest number of entries in a remote listing
MaxListed == 2

\* line 211: versions[:15]
NEOFORGE_LIMIT == 15

\* line 236: loaders[:10]
FABRIC_LIMIT == 10

\* the string "latest"
LATEST_ENTRY == [kind |-> "latest", n |-> 0, p |-> 0]

\* An entry of a listing: the game version it is filed under and its version
\* value.  kind "num": a dotted-number string, "n.p" in a Forge promotion,
\* "<mc>.n.p" in the NeoForge metadata; "tag": such a string with a suffix
\* on n that int() rejects, "n-beta.p" or "<mc>.n-beta.p"; "null": null, an
\* empty XML text or a missing key; "nonstr": a JSON number in place of a
\* string.
ListedEntries ==
  [mc : {"1", "2"},
   version : [kind : {"num", "tag"}, n : {7, 8}, p : {1, 2}]
               \cup { [kind |-> "null", n |-> 0, p |-> 0],
                      [kind |-> "nonstr", n |-> 5, p |-> 0] }]

\* What a metadata endpoint does: urlopen raises; the body is not JSON / XML;
\* the body parses to a value of another shape than the code indexes; or it
\* is a listing.
Responses ==
  { [status |-> st, listed |-> << >>] : st \in {"throws", "garbage", "wrong_shape"} }
    \cup { [status |-> "ok", listed |-> l] : l \in SeqsUpTo(ListedEntries, MaxListed) }

VARIABLES
  lister,        \* which lister runs
  lst_mc,        \* its mc_version argument
  response,      \* what its (first) endpoint does
  installers,    \* what the installer endpoint does (Fabric only)
  lst_pc,        \* "call", "returned", "raised"
  lister_result  \* the list returned

lstVars == <<lister, lst_mc, response, installers, lst_pc, lister_result>>

LstInit ==
  /\ lister \in LoaderKinds
  /\ lst_mc \in {"1", "2"}
  /\ response \in Responses
  /\ installers \in IF lister = "fabric" THEN {"throws", "empty", "noversion", "ok"} ELSE {"ok"}
  /\ lister = "neoforge" =>
       \A i \in 1..Len(response.listed) : response.listed[i].version.kind # "nonstr"
  /\ lst_pc = "call"
  /\ lister_result = << >>

\* "if version not in versions: versions.append(version)" over a list
RECURSIVE Dedupe(_, _)
Dedupe(items, seen) ==
  IF items = << >> THEN seen
  ELSE IF \E i \in 1..Len(seen) : seen[i] = Head(items)
         THEN Dedupe(Tail(items), seen)
         ELSE Dedupe(Tail(items), Append(seen, Head(items)))

\* list.reverse
Reverse(items) == [i \in 1..Len(items) |-> items[Len(items) + 1 - i]]

\* key(a) >= key(b) for the sort keys of lines 173 and 207: the list of all
\* components (Forge), or of x.split(".")[0:2], the game version's component
\* and n (NeoForge); the listed versions of one call share the former
KeyGE(a, b, components) ==
  IF components = "all" THEN a.n > b.n \/ (a.n = b.n /\ a.p >= b.p) ELSE a.n >= b.n

\* stable insertion of v into a list sorted by the key, largest first
RECURSIVE InsertDesc(_, _, _)
InsertDesc(sorted, v, components) ==
  IF sorted = << >> THEN <<v>>
  ELSE IF KeyGE(Head(sorted), v, components)
         THEN <<Head(sorted)>> \o InsertDesc(Tail(sorted), v, components)
         ELSE <<v>> \o sorted

\* list.sort(key=..., reverse=True): equal keys keep their order
RECURSIVE SortDesc(_, _, _)
SortDesc(items, sorted, components) ==
  IF items = << >> THEN sorted
  ELSE SortDesc(Tail(items), InsertDesc(sorted, Head(items), components), components)

\* lines 172-175, 206-209: sort by the numeric key, largest first; when the
\* key function raises for some element the list is reversed instead
SortNewestFirst(versions, components) ==
  IF \A i \in 1..Len(versions) : versions[i].kind = "num"
    THEN SortDesc(versions, << >>, components)
    ELSE Reverse(versions)

\* a slice items[:n]
Take(items, n) == SubSeq(items, 1, IF Len(items) < n THEN Len(items) ELSE n)

\* mutant of OrSentinel: the list is returned as it is
OrSentinel_AsIs(versions, sentinel) == versions

\* "versions if versions else [sentinel]"
OrSentinel(versions, sentinel) == IF versions = << >> THEN <<sentinel>> ELSE versions

\* the versions of the entries e of a listing that satisfy keep, in order
RECURSIVE VersionsWhere(_, _, _)
VersionsWhere(listed, mc, keepNull) ==
  IF listed = << >> THEN << >>
  ELSE LET e == Head(listed) IN
       IF e.mc = mc /\ (keepNull \/ e.version.kind # "null")
         THEN <<e.version>> \o VersionsWhere(Tail(listed), mc, keepNull)
         ELSE VersionsWhere(Tail(listed), mc, keepNull)

\* the outcome of a try block: an exception, or a value
Raised == [exc |-> TRUE, value |-> << >>]

Value(v) == [exc |-> FALSE, value |-> v]

\* lines 158-177: every promotion whose key starts with "<mc_version>-" is a
\* candidate, whatever its value is
ForgeTry(mc, resp) ==
  IF resp.status # "ok" THEN Raised
  ELSE Value(OrSentinel(SortNewestFirst(Dedupe(VersionsWhere(resp.listed, mc, TRUE), << >>),
                                        "all"),
                        LATEST_ENTRY))

\* lines 186-211: every <version> with a text whose first component is the
\* game version's is a candidate.  A document without such elements parses
\* and yields none.
NeoForgeTry(mc, resp) ==
  IF resp.status \in {"throws", "garbage"} THEN Raised
  ELSE Value(OrSentinel(
         Take(SortNewestFirst(Dedupe(VersionsWhere(resp.listed, mc, FALSE), << >>),
                              "first two"),
              NEOFORGE_LIMIT),
         LATEST_ENTRY))

\* the loader versions of lines 236-239: entries without a (truthy) version
\* are left out, the others are paired with the newest installer
RECURSIVE FabricPairs(_)
FabricPairs(listed) ==
  IF listed = << >> THEN << >>
  ELSE IF Head(listed).version.kind = "null"
         THEN FabricPairs(Tail(listed))
         ELSE << <<Head(listed).version, [kind |-> "num", n |-> 1, p |-> 0]>> >>
                \o FabricPairs(Tail(listed))

\* lines 221-241: both listings are fetched; an empty one gives the sentinel
\* pair; installers[0]["version"] raises when that key is missing
FabricTry(resp, inst) ==
  IF resp.status \in {"throws", "garbage"} \/ inst = "throws" THEN Raised
  ELSE IF (resp.status = "ok" /\ resp.listed = << >>) \/ inst = "empty"
         THEN Value(<< <<LATEST_ENTRY, LATEST_ENTRY>> >>)
  ELSE IF inst = "noversion" \/ resp.status = "wrong_shape" THEN Raised
  ELSE Value(OrSentinel(FabricPairs(Take(resp.listed, FABRIC_LIMIT)),
                        <<LATEST_ENTRY, LATEST_ENTRY>>))

\* lines 178-179, 212-213, 242-243: "except Exception: return [sentinel]"
ExceptReturnsSentinel(try, sentinel) == IF try.exc THEN <<sentinel>> ELSE try.value

\* the three listers
GetAvailableVersions(k, mc, resp, inst) ==
  CASE k = "forge"    -> ExceptReturnsSentinel(ForgeTry(mc, resp), LATEST_ENTRY)
    [] k = "neoforge" -> ExceptReturnsSentinel(NeoForgeTry(mc, resp), LATEST_ENTRY)
    [] k = "fabric"   -> ExceptReturnsSentinel(FabricTry(resp, inst),
                                               <<LATEST_ENTRY, LATEST_ENTRY>>)

\* one call of a lister
CallLister ==
  /\ lst_pc = "call"
  /\ lister_result' = GetAvailableVersions(lister, lst_mc, response, installers)
  /\ lst_pc' = "returned"
  /\ UNCHANGED <<lister, lst_mc, response, installers>>

\* ========================================================================
\* InstallThreads: the background threads of MinecraftLauncherApp that call
\* download_vanilla_version
\* ========================================================================

\* largest number of background threads alive at a time
MaxThreads == 2

\* no thread in this slot
IdleThread == [origin |-> "none", id |-> "", pc |-> "idle"]

VARIABLES
  threads   \* per thread: the handler that started it, its version_id and
            \* its position in download_vanilla_version

ThrInit == threads = [t \in 1..MaxThreads |-> IdleThread]

\* lines 1809-1813, 2141-2145 with 2176-2180, 2264-2268: on_create,
\* on_import and on_install start a daemon thread and return; no handler
\* looks at the threads that run, and the main window stays usable.  The
\* thread reaches the call of download_vanilla_version.
StartThread(t, origin, id) ==
  /\ threads[t].pc = "idle"
  /\ threads' = [threads EXCEPT ![t] = [origin |-> origin, id |-> id, pc |-> "called"]]

\* lines 906-930: manifest, descriptor, directories, and write_text of
\* <id>.json
WriteDescriptor(t) ==
  /\ threads[t].pc = "called"
  /\ threads' = [threads EXCEPT ![t].pc = "descriptor"]

\* lines 932-936 and 515: download_to_file has opened <id>.jar for writing
BeginClient(t) ==
  /\ threads[t].pc = "descriptor"
  /\ threads' = [threads EXCEPT ![t].pc = "client"]

\* line 516: the copy into <id>.jar ends or raises
EndClient(t, ok) ==
  /\ threads[t].pc = "client"
  /\ threads' = [threads EXCEPT ![t].pc = IF ok THEN "batches" ELSE "raised"]

\* lines 939-990: the library and asset batches, then java_args_<id>.txt is
\* written and the call returns
WriteArgs(t) ==
  /\ threads[t].pc = "batches"
  /\ threads' = [threads EXCEPT ![t].pc = "done"]

\* lines 2288-2294, 2300-2306, 2181-2186: the thread's function logs the
\* outcome and returns
ThreadExit(t) ==
  /\ threads[t].pc \in {"done", "raised"}
  /\ threads' = [threads EXCEPT ![t] = IdleThread]

\* ========================================================================
\* Specifications
\* ========================================================================

vars == <<dlVars, acqVars, synVars, packVars, vanVars, lstVars, threads>>

\* the idle state of each component, for the specifications of the others
DLIdle ==
  /\ download_tasks = << >>
  /\ max_workers = 1
  /\ parallel_enabled = PARALLEL_DOWNLOADS_ENABLED
  /\ fs = << >>
  /\ pre_existing = {}
  /\ dl_pc = "idle"
  /\ idx = 1
  /\ status = << >>
  /\ completed = 0
  /\ dl_log = << >>
  /\ fetched = {}
  /\ failed_task = 0
  /\ finish_order = << >>

AcqIdle ==
  /\ kind = "forge"
  /\ mc_version = <<"1">>
  /\ req_version = << >>
  /\ resolved = Unresolved
  /\ loaders = {}
  /\ truncated = {}
  /\ acq_pc = "idle"
  /\ result = NoFile
  /\ returned_by = "none"
  /\ prompts = 0
  /\ answer = "none"
  /\ scans = 0
  /\ sleeps = 0
  /\ elapsed = 0
  /\ waiting_logs = 0
  /\ still_logs = 0

SynIdle ==
  /\ version_data = [arguments |-> NoArguments, legacy |-> << >>]
  /\ main_class_in = Absent
  /\ config = [auth_player_name |-> Absent, minecraft_dir |-> Absent]
  /\ lib_files = {}
  /\ platform = <<"l", "i", "n", "u", "x">>
  /\ syn_pc = "idle"
  /\ args_file = << >>

PackIdle ==
  /\ schema = "curseforge"
  /\ has_marker = FALSE
  /\ entries = << >>
  /\ bundled = 0
  /\ pack_pc = "idle"
  /\ pack_idx = 1
  /\ pack_tasks = << >>
  /\ pack_log = << >>
  /\ mods_extracted = 0
  /\ overrides_done = FALSE

VanIdle ==
  /\ manifest = << >>
  /\ version_id = "1.20"
  /\ v_entry = NoEntry
  /\ van_pc = "idle"
  /\ dirs_created = FALSE
  /\ version_json = 0
  /\ van_version_data = NoDescriptor
  /\ lib_tasks = << >>
  /\ objects = << >>
  /\ asset_tasks = << >>
  /\ van_disk = {}
  /\ van_done = {}
  /\ java_args_file = 0

LstIdle ==
  /\ lister = "forge"
  /\ lst_mc = "1"
  /\ response = [status |-> "ok", listed |-> << >>]
  /\ installers = "ok"
  /\ lst_pc = "idle"
  /\ lister_result = << >>

ThrIdle == threads = << >>

DLFrame == UNCHANGED <<acqVars, synVars, packVars, vanVars, lstVars, threads>>

DLNext ==
  \/ EnterBatch /\ DLFrame
  \/ SeqIterate /\ DLFrame
  \/ SeqReturn /\ DLFrame
  \/ Submit /\ DLFrame
  \/ (\E t \in Tasks : WorkerStart(t)) /\ DLFrame
  \/ (\E t \in Tasks : WorkerFinish(t)) /\ DLFrame
  \/ Collect /\ DLFrame
  \/ CollectReturn /\ DLFrame
  \/ Unwind /\ DLFrame

InitDownload == DLInit /\ AcqIdle /\ SynIdle /\ PackIdle /\ VanIdle /\ LstIdle /\ ThrIdle

SpecDownload == InitDownload /\ [][DLNext]_vars

\* parallel_download_files with parallel mode disabled: only the sequential
\* branch runs
SeqNext ==
  \/ EnterBatch /\ DLFrame
  \/ SeqIterate /\ DLFrame
  \/ SeqReturn /\ DLFrame

InitSequential == DLInitSequential /\ AcqIdle /\ SynIdle /\ PackIdle /\ VanIdle /\ LstIdle /\ ThrIdle

SpecSequential == InitSequential /\ [][SeqNext]_vars

AcqFrame == UNCHANGED <<dlVars, synVars, packVars, vanVars, lstVars, threads>>

AcqNext ==
  \/ (\E f \in PlacedFiles : UserPlacesFile(f)) /\ AcqFrame
  \/ (\E net \in {"down", "empty", "ok"}, newest \in { <<"7">>, <<"8">> } :
        ResolveStep(net, newest)) /\ AcqFrame
  \/ (\E src \in SourceKinds : DownloadStep(src)) /\ AcqFrame
  \/ FallbackScan /\ AcqFrame
  \/ (\E yes \in BOOLEAN : PromptUser(yes)) /\ AcqFrame
  \/ PollScan /\ AcqFrame
  \/ PollSleep /\ AcqFrame

InitAcquire == AcqInit /\ DLIdle /\ SynIdle /\ PackIdle /\ VanIdle /\ LstIdle /\ ThrIdle

SpecAcquire == InitAcquire /\ [][AcqNext]_vars

\* the poll loop is ordinary sequential code: time.sleep returns and the
\* next scan follows
SpecAcquireFair ==
  /\ SpecAcquire
  /\ WF_vars(PollScan /\ AcqFrame)
  /\ WF_vars(PollSleep /\ AcqFrame)

\* an acquisition during which nobody else touches the loaders directory
AcqAloneNext ==
  \/ (\E net \in {"down", "empty", "ok"}, newest \in { <<"7">>, <<"8">> } :
        ResolveStep(net, newest)) /\ AcqFrame
  \/ (\E src \in SourceKinds : DownloadStep(src)) /\ AcqFrame
  \/ FallbackScan /\ AcqFrame
  \/ (\E yes \in BOOLEAN : PromptUser(yes)) /\ AcqFrame
  \/ PollScan /\ AcqFrame
  \/ PollSleep /\ AcqFrame

SpecAcquireAlone == InitAcquire /\ [][AcqAloneNext]_vars

SynFrame == UNCHANGED <<dlVars, acqVars, packVars, vanVars, lstVars, threads>>

SynNext ==
  \/ Synthesize /\ SynFrame

InitSynth == SynInit /\ DLIdle /\ AcqIdle /\ PackIdle /\ VanIdle /\ LstIdle /\ ThrIdle

SpecSynth == InitSynth /\ [][SynNext]_vars

PackFrame == UNCHANGED <<dlVars, acqVars, synVars, vanVars, lstVars, threads>>

PackNext ==
  \/ OpenArchive /\ PackFrame
  \/ ProcessEntry /\ PackFrame
  \/ EntriesDone /\ PackFrame
  \/ ExtractBundled /\ PackFrame
  \/ BundledDone /\ PackFrame
  \/ (\E ok \in BOOLEAN : DownloadBatch(ok)) /\ PackFrame
  \/ CopyOverrides /\ PackFrame

InitPack == PackInit /\ DLIdle /\ AcqIdle /\ SynIdle /\ VanIdle /\ LstIdle /\ ThrIdle

SpecPack == InitPack /\ [][PackNext]_vars

VanFrame == UNCHANGED <<dlVars, acqVars, synVars, packVars, lstVars, threads>>

VanNext ==
  \/ (\E ok \in BOOLEAN : FetchManifest(ok)) /\ VanFrame
  \/ FindVersion /\ VanFrame
  \/ (\E ok \in BOOLEAN, vd \in VersionDescriptors : FetchVersionJson(ok, vd)) /\ VanFrame
  \/ WriteVersionJson /\ VanFrame
  \/ (\E src \in SourceKinds : DownloadClient(src)) /\ VanFrame
  \/ BuildLibTasks /\ VanFrame
  \/ (\E ok \in BOOLEAN : RunLibBatch(ok)) /\ VanFrame
  \/ (\E ok \in BOOLEAN, objs \in AssetIndexes : FetchAssetIndex(ok, objs)) /\ VanFrame
  \/ BuildAssetTasks /\ VanFrame
  \/ (\E ok \in BOOLEAN, done \in SUBSET Dests(asset_tasks) : RunAssetBatch(ok, done)) /\ VanFrame
  \/ GenerateArgs /\ VanFrame
  \/ StartRun /\ VanFrame

InitVanilla == VanInit /\ DLIdle /\ AcqIdle /\ SynIdle /\ PackIdle /\ LstIdle /\ ThrIdle

SpecVanilla == InitVanilla /\ [][VanNext]_vars

LstFrame == UNCHANGED <<dlVars, acqVars, synVars, packVars, vanVars, threads>>

LstNext ==
  \/ CallLister /\ LstFrame

InitListers == LstInit /\ DLIdle /\ AcqIdle /\ SynIdle /\ PackIdle /\ VanIdle /\ ThrIdle

SpecListers == InitListers /\ [][LstNext]_vars

ThrFrame == UNCHANGED <<dlVars, acqVars, synVars, packVars, vanVars, lstVars>>

ThrNext ==
  \/ (\E t \in 1..MaxThreads, origin \in {"create", "import", "install"},
          id \in {"1.20", "1.21"} : StartThread(t, origin, id)) /\ ThrFrame
  \/ (\E t \in 1..MaxThreads : WriteDescriptor(t)) /\ ThrFrame
  \/ (\E t \in 1..MaxThreads : BeginClient(t)) /\ ThrFrame
  \/ (\E t \in 1..MaxThreads, ok \in BOOLEAN : EndClient(t, ok)) /\ ThrFrame
  \/ (\E t \in 1..MaxThreads : WriteArgs(t)) /\ ThrFrame
  \/ (\E t \in 1..MaxThreads : ThreadExit(t)) /\ ThrFrame

InitThreads ==
  ThrInit /\ DLIdle /\ AcqIdle /\ SynIdle /\ PackIdle /\ VanIdle /\ LstIdle

SpecThreads == InitThreads /\ [][ThrNext]_vars

\* ========================================================================
\* Claims about the download orchestrator
\* ========================================================================

\* C1: in the parallel branch, once the first failure has been observed
\* (the RuntimeError of line 559 is on its way to the caller), no task that
\* has not started yet is started any more.
C1_NoStartAfterFailure ==
  [][dl_pc = "unwind" => \A t \in Tasks : status[t] = "queued" => status'[t] = "queued"]_vars

\* C2: in every batch, a task whose destination held a file before the batch
\* ran is never fetched and its file stays as it was, and a batch fails only
\* because of a failing source whose destination did not pre-exist.
C2_PreExistingSkipped ==
  /\ \A t \in Tasks : t \in pre_existing => t \notin fetched /\ fs[t] = "seeded"
  /\ dl_pc = "raised" =>
       \E t \in Tasks : DownloadRaises(download_tasks[t]) /\ t \notin pre_existing

\* a message that reports progress (not a failure)
C13_IsProgress(m) == m.msg \in {"Downloading", "Downloaded"}

\* task t has been downloaded completely
C13_Completed(t) == t \in fetched /\ status[t] # "running" /\ download_tasks[t] = "ok"

\* positions of dl_log that hold a progress message
C13_ProgressAt == { i \in 1..Len(dl_log) : C13_IsProgress(dl_log[i]) }

\* C13: in the sequential and in the parallel branch, when the batch is over
\* every completed task has exactly one progress message, the j-th progress
\* message carries the counter j, and a progress message for a task is
\* emitted only once that task has completed.
C13_OneProgressPerCompletedTask ==
  /\ [](dl_pc \in {"returned", "raised"} =>
          \A t \in Tasks : C13_Completed(t) =>
             Cardinality({ i \in C13_ProgressAt : dl_log[i].task = t }) = 1)
  /\ [](\A i \in C13_ProgressAt :
          dl_log[i].n = Cardinality({ j \in C13_ProgressAt : j <= i }))
  /\ [][\A i \in 1..Len(dl_log') :
          (i > Len(dl_log) /\ C13_IsProgress(dl_log'[i])) => C13_Completed(dl_log'[i].task)]_vars

\* C14: in the sequential branch, when task k is the one that fails, the
\* log holds the progress messages of tasks 1..k in order and then the
\* failure message of task k, the failure raised is task k's, exactly the
\* tasks 1..k have been fetched, and k is the first task with a failing source.
C14_SequentialFailFast ==
  /\ dl_pc = "raised" =>
       /\ failed_task \in Tasks
       /\ download_tasks[failed_task] # "ok"
       /\ \A j \in 1..(failed_task - 1) : download_tasks[j] = "ok"
       /\ fetched = 1..failed_task
       /\ Len(dl_log) = failed_task + 1
       /\ \A j \in 1..failed_task :
            dl_log[j].msg = "Downloading" /\ dl_log[j].task = j
       /\ dl_log[failed_task + 1].msg = "Failed"
       /\ dl_log[failed_task + 1].task = failed_task
  /\ dl_pc # "raised" =>
       /\ failed_task = 0
       /\ \A i \in 1..Len(dl_log) : dl_log[i].msg = "Downloading"

\* the second of three tasks failed in the sequential branch
C14_Witness ==
  /\ ~parallel_enabled
  /\ dl_pc = "raised"
  /\ NumTasks = 3
  /\ failed_task = 2
  /\ Len(dl_log) = 3

\* the position of the progress message of task t in dl_log (0: none)
C15_MessageAt(t) ==
  IF \E i \in 1..Len(dl_log) : dl_log[i].msg = "Downloaded" /\ dl_log[i].task = t
    THEN CHOOSE i \in 1..Len(dl_log) : dl_log[i].msg = "Downloaded" /\ dl_log[i].task = t
    ELSE 0

\* C15: in the parallel branch, when task b's download ended before task
\* a's (both completely), the progress message of a is not in the log
\* before the progress message of b.
C15_CompletionOrderMessages ==
  \A i, j \in 1..Len(finish_order) :
    LET b == finish_order[i]
        a == finish_order[j]
    IN  (i < j /\ status[a] = "ok" /\ status[b] = "ok" /\ C15_MessageAt(a) # 0)
          => (C15_MessageAt(b) # 0 /\ C15_MessageAt(b) < C15_MessageAt(a))

\* C16: at every moment of a batch, the tasks that have started and not
\* yet ended are at most max_workers.
C16_InFlightBounded == Cardinality({ t \in Tasks : status[t] = "running" }) <= max_workers

\* two workers are busy and a third task waits in the queue
C16_Witness ==
  /\ max_workers = 2
  /\ Cardinality({ t \in Tasks : status[t] = "running" }) = 2
  /\ \E t \in Tasks : status[t] = "queued"

\* C28: a download that failed has left no file at its destination, so
\* every destination that exists holds a completely transferred file.
C28_NoPartialFile ==
  \A t \in Tasks :
    /\ fs[t] # "partial"
    /\ (status[t] = "failed" /\ t \notin pre_existing) => fs[t] = "absent"

\* the tasks of the batch whose download fails
C29_Failing == { t \in Tasks : DownloadRaises(download_tasks[t]) }

\* C29: when a parallel batch ends with an error, the error is that of the
\* failing task submitted first, whichever failing task finished first, and
\* the tasks with a success message are exactly those submitted before it.
C29_FirstFailureReported ==
  (NumTasks > 1 /\ dl_pc \in {"unwind", "raised"}) =>
    /\ failed_task \in C29_Failing
    /\ \A t \in C29_Failing : failed_task <= t
    /\ { dl_log[i].task : i \in { j \in 1..Len(dl_log) : dl_log[j].msg = "Downloaded" } }
         = 1..(failed_task - 1)

\* two tasks failed, the one submitted later finished first, and a task
\* submitted before both succeeded
C29_Witness ==
  /\ dl_pc = "raised"
  /\ failed_task > 1
  /\ \E t \in C29_Failing :
       /\ t > failed_task
       /\ \E i, j \in 1..Len(finish_order) :
            i < j /\ finish_order[i] = t /\ finish_order[j] = failed_task

\* ========================================================================
\* Claims about the installer acquisition
\* ========================================================================

\* a file name of loader kind k's installer pattern: "forge-*.jar",
\* "fabric-*.jar", "neoforge-*.jar"
C3_OfKindPattern(k, f) ==
  /\ EndsWith(f, <<".", "j", "a", "r">>)
  /\ \/ k = "forge" /\ StartsWith(f, <<"f", "o", "r", "g", "e", "-">>)
     \/ k = "fabric" /\ StartsWith(f, <<"f", "a", "b", "r", "i", "c", "-">>)
     \/ k = "neoforge" /\ StartsWith(f, <<"n", "e", "o", "f", "o", "r", "g", "e", "-">>)

\* C3: for each loader kind, when the automated step has failed and the
\* loaders directory holds a file of that kind's installer pattern, the
\* function returns such a file of the directory, and no prompt, no poll scan
\* and no sleep has happened or happens afterwards.
C3_CachedFileReturned ==
  /\ [][(acq_pc = "fallback" /\ acq_pc' # "fallback"
          /\ \E f \in loaders : C3_OfKindPattern(kind, f))
        => (/\ acq_pc' = "returned"
            /\ result' \in loaders
            /\ C3_OfKindPattern(kind, result')
            /\ prompts' = 0 /\ scans' = 0 /\ sleeps' = 0)]_vars
  /\ [](returned_by = "scan" =>
          acq_pc = "returned" /\ prompts = 0 /\ scans = 0 /\ sleeps = 0
          /\ waiting_logs = 0)

\* the automated step failed and the cache scan returned a fabric installer
C3_Witness ==
  /\ kind = "fabric"
  /\ resolved = Unresolved
  /\ returned_by = "scan"
  /\ C3_OfKindPattern(kind, result)
  /\ prompts = 0

\* C4: when the user answers no to the prompt, _wait_for_manual_loader fails
\* with the cancelled error at once: no directory scan, no sleep, no waiting
\* message, and no file is returned.
C4_DeclineCancels ==
  /\ answer = "no" =>
       /\ acq_pc = "cancelled"
       /\ result = NoFile
       /\ scans = 0 /\ sleeps = 0 /\ waiting_logs = 0 /\ still_logs = 0
  /\ acq_pc = "cancelled" => answer = "no" /\ prompts = 1

\* the user declined although a file the poll loop accepts is in the
\* directory
C4_Witness ==
  /\ answer = "no"
  /\ acq_pc = "cancelled"
  /\ \E f \in loaders :
       EndsWith(f, <<".", "j", "a", "r">>) /\ Contains(f, Fragment(kind))

\* a file the poll loop is to accept for kind k: a .jar whose name contains
\* the kind's fragment
C5_Acceptable(k, f) ==
  /\ EndsWith(f, <<".", "j", "a", "r">>)
  /\ \/ k = "forge" /\ Contains(f, <<"f", "o", "r", "g", "e", "-">>)
     \/ k = "fabric" /\ Contains(f, <<"f", "a", "b", "r", "i", "c", "-">>)
     \/ k = "neoforge" /\ Contains(f, <<"n", "e", "o", "f", "o", "r", "g", "e", "-">>)

\* C5: after the user confirms, the wait ends: at most 300 one-second
\* sleeps; a scan that sees a matching file returns one at once (so the file
\* returned is of the first scan that saw any), a scan that sees none
\* returns nothing; the timeout is raised exactly when 300 seconds have
\* elapsed, with no file returned then or later.
C5_PollTerminates ==
  /\ [](/\ sleeps <= 300
        /\ elapsed = sleeps
        /\ scans <= sleeps + 1
        /\ acq_pc = "timeout" =>
             elapsed = 300 /\ sleeps = 300 /\ result = NoFile /\ returned_by = "none")
  /\ [][(acq_pc = "poll_scan" /\ acq_pc' # "poll_scan") =>
          IF \E f \in loaders : C5_Acceptable(kind, f)
            THEN /\ acq_pc' = "returned"
                 /\ result' \in loaders
                 /\ C5_Acceptable(kind, result')
            ELSE /\ acq_pc' = "poll_sleep"
                 /\ result' = NoFile]_vars
  /\ [][acq_pc = "timeout" => acq_pc' = "timeout" /\ result' = NoFile]_vars
  /\ (answer = "yes") ~> (acq_pc \in {"returned", "timeout"})

\* the wait timed out after its 300 sleeps
C5_WitnessTimeout ==
  /\ answer = "yes"
  /\ acq_pc = "timeout"
  /\ sleeps = 300
  /\ scans = 300

\* C18: the steps of an acquisition come in order.  The except block (the
\* cache scan) is entered only from the automated step and only when that
\* step failed: no version was resolved, or the download of a file that was
\* not cached did not complete.  The prompt is reached only from a scan
\* that found no file of the kind's pattern, and is asked once.  Scans and
\* sleeps of the poll loop and its waiting message happen only after the
\* answer yes.  No step leads back to the automated step, and a return by
\* exact-name cache hit or by direct download comes with no prompt, no poll
\* scan, no sleep and no waiting message.
C18_StepsInOrder ==
  /\ [][(acq_pc # "fallback" /\ acq_pc' = "fallback") =>
          /\ result' = << >>
          /\ \/ acq_pc = "resolve" /\ resolved' = <<"?">>
             \/ /\ acq_pc = "download"
                /\ InstallerName(kind, mc_version, resolved) \notin loaders
                /\ \/ InstallerName(kind, mc_version, resolved) \notin loaders'
                   \/ InstallerName(kind, mc_version, resolved) \in truncated']_vars
  /\ [][(acq_pc # "prompt" /\ acq_pc' = "prompt") =>
          /\ acq_pc = "fallback"
          /\ ~\E f \in loaders : C3_OfKindPattern(kind, f)]_vars
  /\ [][prompts' # prompts => acq_pc = "prompt" /\ prompts = 0 /\ prompts' = 1]_vars
  /\ [][(scans' # scans \/ sleeps' # sleeps \/ waiting_logs' # waiting_logs) =>
          answer' = "yes" /\ prompts' = 1]_vars
  /\ [][(acq_pc \in {"fallback", "prompt", "poll_scan", "poll_sleep"}) =>
          (/\ acq_pc' \notin {"resolve", "download"}
           /\ returned_by' \notin {"cache", "download"})]_vars
  /\ [](returned_by \in {"cache", "download"} =>
          /\ acq_pc = "returned"
          /\ prompts = 0 /\ scans = 0 /\ sleeps = 0 /\ waiting_logs = 0)

\* the download of a resolved version failed, the scan found nothing, the
\* user confirmed, and a later poll scan returned a file
C18_Witness ==
  /\ resolved # <<"?">>
  /\ prompts = 1
  /\ answer = "yes"
  /\ sleeps >= 1
  /\ returned_by = "poll"

\* C22: the except block's scan returns a file exactly when the directory
\* holds a file whose name contains the kind's fragment, and the prompt is
\* shown only when the directory holds no file the poll loop would accept.
C22_ScanAcceptsWhatPollAccepts ==
  [][(acq_pc = "fallback" /\ acq_pc' # "fallback") =>
       /\ (acq_pc' = "returned") <=> (\E f \in loaders : Contains(f, Fragment(kind)))
       /\ (acq_pc' = "prompt") => (PollMatches(kind, loaders) = {})]_vars

\* C25: the file an acquisition for loader kind K returns is a file of
\* kind K, its name starts with K's fragment and ends with ".jar".
C25_ReturnedFileOfKind ==
  acq_pc = "returned" => GlobPrefixJar(Fragment(kind), result)

\* C26: when an explicit loader version is asked for and the installer of the
\* exact name for (kind, game version, loader version) is in the directory
\* when the call starts, the call returns that file.  With nobody else
\* writing to the directory, a complete file of that name at the end was
\* there at the start or is the one the call downloaded and returned.
C26_ExactCachedFileReturned ==
  LET exact == InstallerName(kind, mc_version, req_version) IN
  ( /\ acq_pc \in {"returned", "cancelled", "timeout"}
    /\ ~WantsLatest(req_version)
    /\ exact \in loaders
    /\ exact \notin truncated )
  => (acq_pc = "returned" /\ result = exact)

\* ========================================================================
\* Claims about the argument synthesis
\* ========================================================================

\* C6: no line of the written launch specification (JVM arguments, main
\* class, game arguments) contains "${".
C6_NoPlaceholderLeft ==
  syn_pc = "written" =>
    \A i \in 1..Len(args_file) : ~Contains(args_file[i], <<"$", "{">>)

C8_NumJvm == Len(JvmArgs(version_data))

C8_NumGame == Len(GameArgs(version_data))

C8_OutputOrder ==
  syn_pc = "written" =>
    /\ Len(args_file) = C8_NumJvm + 3 + C8_NumGame
    /\ \A i \in 1..C8_NumJvm : args_file[i] = JvmArgs(version_data)[i]
    /\ args_file[C8_NumJvm + 1] = <<"-cp">>
    /\ EndsWith(args_file[C8_NumJvm + 2], <<"V", "/", "1.20", ".", "j", "a", "r">>)
    /\ args_file[C8_NumJvm + 3] =
         (IF main_class_in = Absent THEN <<"net.minecraft.client.main.Main">>
          ELSE main_class_in)
    /\ \A j \in 1..C8_NumGame :
         args_file[C8_NumJvm + 3 + j] =
           ApplySubstitutions(GameArgs(version_data)[j],
                              Substitutions(config, VERSION_ID))

\* a specification with JVM arguments and game arguments was written
C8_Witness ==
  /\ syn_pc = "written"
  /\ C8_NumJvm >= 1
  /\ C8_NumGame >= 2
  /\ main_class_in # Absent

\* a path list cut at the separator
RECURSIVE C9_Split(_, _, _)
C9_Split(s, sep, cur) ==
  IF s = << >> THEN <<cur>>
  ELSE IF Head(s) = sep THEN <<cur>> \o C9_Split(Tail(s), sep, << >>)
  ELSE C9_Split(Tail(s), sep, Append(cur, Head(s)))

\* the entries of the classpath line of the written specification
C9_Entries ==
  C9_Split(args_file[C8_NumJvm + 2],
           IF platform = <<"w", "i", "n", "3", "2">> THEN ";" ELSE ":",
           << >>)

C9_Count(parts, x) == Cardinality({ i \in 1..Len(parts) : parts[i] = x })

C9_Client == <<"V", "/", "1.20", ".", "j", "a", "r">>

C19_EnumerationOrderIrrelevant ==
  syn_pc = "written" =>
    \A walk \in Orderings(lib_files) :
      args_file = GenerateJavaArgs(version_data, main_class_in, config, walk,
                                   platform, VERSION_ID)

\* one pass over arg, left to right: a table key found at the current
\* position is replaced by its value and the scan goes on after the key
RECURSIVE C27_SinglePass(_, _)
C27_SinglePass(arg, table) ==
  IF arg = << >> THEN << >>
  ELSE LET hits == { i \in 1..Len(table) :
                       /\ Len(table[i].key) <= Len(arg)
                       /\ SubSeq(arg, 1, Len(table[i].key)) = table[i].key }
       IN IF hits = {}
            THEN <<Head(arg)>> \o C27_SinglePass(Tail(arg), table)
            ELSE LET i == CHOOSE h \in hits : \A g \in hits : h <= g
                 IN table[i].value
                      \o C27_SinglePass(SubSeq(arg, Len(table[i].key) + 1, Len(arg)), table)

\* C27: every game argument written is the single simultaneous pass of the
\* substitution table over the descriptor's argument; a substituted value is
\* not substituted again.
C27_SubstitutionIsSinglePass ==
  syn_pc = "written" =>
    LET game == GameArgs(version_data)
    IN \A i \in 1..Len(game) :
         args_file[Len(args_file) - Len(game) + i]
           = C27_SinglePass(game[i], Substitutions(config, VERSION_ID))

\* ========================================================================
\* Claims about the pack importers
\* ========================================================================

\* entry i became a download task
C10_Resolved(i) == \E k \in 1..Len(pack_tasks) : pack_tasks[k] = i

\* a warning about entry i was logged
C10_Warned(i) == \E k \in 1..Len(pack_log) : pack_log[k] = [msg |-> "warning", entry |-> i]

\* C10: in an import of either schema, every required remote entry of the
\* manifest that was not turned into a download task has a logged warning by
\* the time its loop iteration is over (entries that are not required are
\* left aside here: the claim's weakest reading), and such an entry never
\* makes the import raise.
C10_UnresolvedEntriesWarned ==
  /\ \A i \in 1..Len(entries) :
       (i < pack_idx /\ pack_pc # "open" /\ entries[i].required /\ ~C10_Resolved(i))
         => C10_Warned(i)
  /\ (pack_pc = "raised" /\ has_marker) => pack_tasks # << >>

\* ========================================================================
\* Claims about the vanilla installer
\* ========================================================================

\* C11: when the manifest holds an entry with the requested id, the lookup
\* yields an entry of the manifest whose id is the requested one and the
\* installation goes on; when it holds none, the installation ends with the
\* not-found error, and no directory has been made and no file written.
C11_ResolveOrNotFound ==
  /\ [][van_pc = "find" =>
          IF \E i \in 1..Len(manifest) : manifest[i].id = version_id
            THEN /\ van_pc' = "fetch_json"
                 /\ v_entry'.id = version_id
                 /\ \E i \in 1..Len(manifest) : manifest[i] = v_entry'
            ELSE /\ van_pc' = "notfound"
                 /\ UNCHANGED <<dirs_created, version_json, van_disk>>]_vars
  /\ [](van_pc = "notfound" => ~dirs_created /\ version_json = 0 /\ van_disk = {})
  /\ []((dirs_created \/ version_json # 0 \/ van_disk # {}) =>
          \E i \in 1..Len(manifest) : manifest[i].id = version_id)

\* the manifest holds entries, none with the requested id
C11_Witness ==
  /\ van_pc = "notfound"
  /\ Len(manifest) = 2
  /\ v_entry = [id |-> "<none>", url |-> ""]

\* C17: the destinations of the library batch and of the asset batch are
\* pairwise distinct.
C17_DistinctDestinations ==
  /\ \A i, j \in 1..Len(lib_tasks) : i # j => lib_tasks[i].dest # lib_tasks[j].dest
  /\ \A i, j \in 1..Len(asset_tasks) : i # j => asset_tasks[i].dest # asset_tasks[j].dest

\* C20: once <root>/<id>.json has been written, no later step changes what
\* it holds.
C20_DescriptorFileImmutable ==
  [][version_json # 0 => version_json' = version_json]_vars

\* C21: java_args_<id>.txt is written only by a call whose client download,
\* library batch and asset batch all completed; a download that fails makes
\* the call raise, and a call that raises leaves the file as it was.
C21_AllDownloadsSucceeded ==
  /\ "client" \in van_done
  /\ lib_tasks # << >> => "libraries" \in van_done
  /\ asset_tasks # << >> => "assets" \in van_done

C21_ArgsFileOnlyAfterSuccess ==
  [][/\ (van_pc = "args" /\ van_pc' = "done") => C21_AllDownloadsSucceeded
     /\ (java_args_file' # java_args_file) => (van_pc = "args" /\ van_pc' = "done")
     /\ (van_pc \in {"client", "lib_batch", "asset_batch"} /\ van_done' = van_done)
          => (van_pc' = "raised" /\ java_args_file' = java_args_file)]_vars

\* a later call with another descriptor failed in a batch after an earlier
\* call had generated the file
C21_Witness ==
  /\ van_pc = "raised"
  /\ "client" \in van_done
  /\ java_args_file # 0
  /\ version_json # java_args_file

\* ========================================================================
\* Claims about the version listers
\* ========================================================================

\* the single sentinel entry of lister k
C12_Sentinel(k) ==
  IF k = "fabric"
    THEN << <<[kind |-> "latest", n |-> 0, p |-> 0], [kind |-> "latest", n |-> 0, p |-> 0]>> >>
    ELSE << [kind |-> "latest", n |-> 0, p |-> 0] >>

\* the remote call of the running lister throws
C12_Throws == response.status = "throws" \/ installers = "throws"

\* the response cannot be parsed or is not of the shape the lister indexes
C12_BadDocument ==
  \/ response.status = "garbage"
  \/ response.status = "wrong_shape" /\ lister # "neoforge"
  \/ installers = "noversion" /\ response.listed # << >>

\* an entry of the listing holds a value that is not a version string
C12_BadEntry ==
  \E i \in 1..Len(response.listed) : response.listed[i].version.kind \in {"null", "nonstr"}

\* the listing holds no version string for the game version asked for
C12_NoCandidate ==
  \/ installers = "empty"
  \/ \A i \in 1..Len(response.listed) :
       \/ lister # "fabric" /\ response.listed[i].mc # lst_mc
       \/ lister # "forge" /\ response.listed[i].version.kind = "null"

C23_Candidates ==
  Dedupe(VersionsWhere(response.listed, lst_mc, lister = "forge"), << >>)

\* C23: when every candidate of a Forge or NeoForge listing is a dotted
\* number, no returned version is numerically greater, by its whole dotted
\* tuple, than a version returned before it.
C23_NewestFirst ==
  ( /\ lst_pc = "returned"
    /\ lister \in {"forge", "neoforge"}
    /\ response.status = "ok"
    /\ \A i \in 1..Len(C23_Candidates) : C23_Candidates[i].kind = "num" )
  => \A i, j \in 1..Len(lister_result) :
       i < j => KeyGE(lister_result[i], lister_result[j], "all")

\* the rank of a NeoForge version string in string order: "<mc>.7-beta.2" <
\* "<mc>.7.1" < "<mc>.7.2" < "<mc>.8-beta.1", as "-" sorts before "."
C24_LexRank(v) == v.n * 100 + (IF v.kind = "num" THEN 10 ELSE 0) + v.p

\* C24: when a candidate of the NeoForge listing fails numeric parsing the
\* call returns at most 15 entries, in descending string order.
C24_ReverseLexicalFallback ==
  ( /\ lst_pc = "returned"
    /\ lister = "neoforge"
    /\ response.status = "ok"
    /\ \E i \in 1..Len(C23_Candidates) : C23_Candidates[i].kind = "tag" )
  => /\ Len(lister_result) <= NEOFORGE_LIMIT
     /\ \A i, j \in 1..Len(lister_result) :
          i < j => C24_LexRank(lister_result[i]) >= C24_LexRank(lister_result[j])

\* ========================================================================
\* Claims about the install threads
\* ========================================================================

\* C30: no two threads run download_vanilla_version for the same version
\* identifier at the same time, and no two of them have the same version's
\* client jar open for writing.
C30_OneRunPerVersion ==
  \A a, b \in DOMAIN threads :
    (a # b /\ threads[a].pc # "idle" /\ threads[b].pc # "idle")
      => threads[a].id # threads[b].id

====
